---- MODULE Spec2Model ----
(***************************************************************************)
(* Model of the arena allocator of src/arena.h: arena_new, arena_malloc    *)
(* and destroy_arena, with the host allocator (malloc/free) as a heap of   *)
(* allocation records and size_t arithmetic taken modulo 2^WordBits.       *)
(* reset is not part of src/arena.h; it is modelled from the specification *)
(* (section 4.1).                                                          *)
(***************************************************************************)
EXTENDS Integers, Sequences, FiniteSets, TLC

\* ---- bounds ------------------------------------------------------------
WordBits == 2          \* width of size_t in the model
MaxHeap == 8           \* host allocations made over one behaviour
MaxPtrs == 4           \* successful arena_malloc calls over one behaviour
MaxResets == 1         \* reset calls over one behaviour

Modulus == 2 ^ WordBits
SizeT == 0 .. (Modulus - 1)

\* size_t arithmetic
AddW(a, b) == (a + b) % Modulus
MulW(a, b) == (a * b) % Modulus

NULL == "NULL"
ARENA == "arena"
Handles == {NULL, ARENA}

VARIABLES
    phase,      \* "unset" | "live" | "destroyed": what the handle ARENA designates
    el_size,    \* arena->el_size
    chunk_els,  \* arena->chunk_els
    chunks,     \* arena->chunks: sequence of arena_t [memory, rec, size, used]
    heap,       \* host allocations in order of malloc: [kind, live, frees]
    ptrs,       \* pointers returned by arena_malloc: [chunk, off, epoch]
    resets,     \* number of reset calls made on the live arena
    obj,        \* heap ids of the arena_allocator_t and of its vector_arena_t
    teardown,   \* what destroy_arena read, freed and destroyed, in order
    op          \* the last call: name, handle, arguments, host outcomes and result

vars == <<phase, el_size, chunk_els, chunks, heap, obj, teardown, ptrs, resets, op>>

\* ---- host allocator ----------------------------------------------------
HeapMalloc(h, kind) == Append(h, [kind |-> kind, live |-> TRUE, frees |-> 0])
HeapFree(h, id) == [h EXCEPT ![id] = [@ EXCEPT !.live = FALSE, !.frees = @ + 1]]
LiveAllocs(h) == {i \in 1 .. Len(h) : h[i].live}

Call(name, handle, n, e, ok1, ok2, ret) ==
    [name |-> name, handle |-> handle, chunk_els |-> n, el_size |-> e,
     ok1 |-> ok1, ok2 |-> ok2, ret |-> ret]

Init ==
    /\ phase = "unset"
    /\ el_size = 0
    /\ chunk_els = 0
    /\ chunks = <<>>
    /\ heap = <<>>
    /\ ptrs = <<>>
    /\ resets = 0
    /\ obj = [allocator |-> 0, tracker |-> 0]
    /\ teardown = <<>>
    /\ op = Call("none", NULL, 0, 0, TRUE, TRUE, "void")

\* ---- arena_new (src/arena.h:124-151) -----------------------------------
\* heap after the two mallocs of arena_new and its unwinding
arena_new_heap_leak(h, allocOk, vecOk) ==
    IF ~allocOk THEN h
    ELSE IF ~vecOk THEN HeapMalloc(h, "allocator")
    ELSE HeapMalloc(HeapMalloc(h, "allocator"), "tracker")

arena_new_heap(h, allocOk, vecOk) ==
    IF ~allocOk THEN h
    ELSE IF ~vecOk THEN HeapFree(HeapMalloc(h, "allocator"), Len(h) + 1)
    ELSE HeapMalloc(HeapMalloc(h, "allocator"), "tracker")

arena_new(n, e, allocOk, vecOk) ==
    /\ phase = "unset"
    /\ Len(heap) + 2 <= MaxHeap
    /\ heap' = arena_new_heap(heap, allocOk, vecOk)
    /\ IF allocOk /\ vecOk
       THEN /\ phase' = "live"
            /\ chunks' = <<>>
            /\ el_size' = e
            /\ chunk_els' = n
            /\ obj' = [allocator |-> Len(heap) + 1, tracker |-> Len(heap) + 2]
            /\ op' = Call("arena_new", NULL, n, e, allocOk, vecOk, ARENA)
       ELSE /\ UNCHANGED <<phase, chunks, el_size, chunk_els, obj, teardown>>
            /\ op' = Call("arena_new", NULL, n, e, allocOk, allocOk => vecOk, NULL)
    /\ UNCHANGED <<ptrs, resets, teardown>>

\* ---- arena_malloc (src/arena.h:165-223) --------------------------------
arena_is_null_unchecked(h) == FALSE

\* if (!arena)
arena_is_null(h) == h = NULL

LastChunk(cs) == cs[Len(cs)]

has_space_strict(cs, e) ==
    IF Len(cs) > 0 THEN AddW(LastChunk(cs).used, e) < LastChunk(cs).size ELSE FALSE

\* bool has_space: last_chunk->used + arena->el_size <= last_chunk->size
has_space(cs, e) ==
    IF Len(cs) > 0 THEN AddW(LastChunk(cs).used, e) <= LastChunk(cs).size ELSE FALSE

\* arena->chunks->length == 0 || !has_space
needs_chunk(cs, e) == Len(cs) = 0 \/ ~has_space(cs, e)

chunk_bytes_unscaled(e, n) == e

\* arena->el_size * arena->chunk_els, the argument of malloc and new_chunk->size
chunk_bytes(e, n) == MulW(e, n)

new_chunk_heap_leak(h, bufOk, recOk) ==
    IF ~bufOk THEN h
    ELSE IF ~recOk THEN HeapMalloc(h, "buffer")
    ELSE HeapMalloc(HeapMalloc(h, "buffer"), "record")

\* heap after the two mallocs of the new-chunk branch and its unwinding
new_chunk_heap(h, bufOk, recOk) ==
    IF ~bufOk THEN h
    ELSE IF ~recOk THEN HeapFree(HeapMalloc(h, "buffer"), Len(h) + 1)
    ELSE HeapMalloc(HeapMalloc(h, "buffer"), "record")

\* new_chunk initialised and pushed on the vector
push_new_chunk(cs, h, e, n) ==
    Append(cs, [memory |-> Len(h) + 1, rec |-> Len(h) + 2,
                size |-> chunk_bytes(e, n), used |-> 0])

\* ptr = last_chunk->memory + last_chunk->used
next_ptr(cs, epoch) ==
    [chunk |-> Len(cs), off |-> LastChunk(cs).used, epoch |-> epoch]

\* last_chunk->used += arena->el_size
bump(cs, e) == [cs EXCEPT ![Len(cs)].used = AddW(@, e)]

arena_malloc(h, bufOk, recOk) ==
    /\ h = ARENA => phase = "live"
    /\ Len(heap) + 2 <= MaxHeap
    /\ Len(ptrs) < MaxPtrs
    /\ IF arena_is_null(h)
       THEN /\ op' = Call("arena_malloc", h, 0, 0, TRUE, TRUE, NULL)
            /\ UNCHANGED <<phase, el_size, chunk_els, chunks, heap, obj, teardown, ptrs, resets>>
       ELSE IF needs_chunk(chunks, el_size)
       THEN /\ heap' = new_chunk_heap(heap, bufOk, recOk)
            /\ IF bufOk /\ recOk
               THEN LET cs == push_new_chunk(chunks, heap, el_size, chunk_els) IN
                    /\ ptrs' = Append(ptrs, next_ptr(cs, resets))
                    /\ chunks' = bump(cs, el_size)
                    /\ op' = Call("arena_malloc", h, 0, 0, TRUE, TRUE, "ptr")
               ELSE /\ op' = Call("arena_malloc", h, 0, 0, bufOk, bufOk => recOk, NULL)
                    /\ UNCHANGED <<chunks, ptrs>>
            /\ UNCHANGED <<phase, el_size, chunk_els, obj, teardown, resets>>
       ELSE /\ ptrs' = Append(ptrs, next_ptr(chunks, resets))
            /\ chunks' = bump(chunks, el_size)
            /\ op' = Call("arena_malloc", h, 0, 0, TRUE, TRUE, "ptr")
            /\ UNCHANGED <<phase, el_size, chunk_els, heap, obj, teardown, resets>>

\* ---- reset (specification section 4.1; not in src/arena.h) --------------
reset_chunks_last_only(cs) ==
    [i \in 1 .. Len(cs) |-> IF i = Len(cs) THEN [cs[i] EXCEPT !.used = 0] ELSE cs[i]]

\* every chunk of the sequence gets used = 0
reset_chunks(cs) == [i \in 1 .. Len(cs) |-> [cs[i] EXCEPT !.used = 0]]

reset(h) ==
    /\ h = ARENA => phase = "live"
    /\ IF h = NULL
       THEN /\ op' = Call("reset", h, 0, 0, TRUE, TRUE, "void")
            /\ UNCHANGED <<phase, el_size, chunk_els, chunks, heap, obj, teardown, ptrs, resets>>
       ELSE /\ resets < MaxResets
            /\ chunks' = reset_chunks(chunks)
            /\ resets' = resets + 1
            /\ op' = Call("reset", h, 0, 0, TRUE, TRUE, "void")
            /\ UNCHANGED <<phase, el_size, chunk_els, heap, obj, teardown, ptrs>>

\* ---- destroy_arena (src/arena.h:234-255) --------------------------------
\* for (i = 0; i < length; i++) { free(chunk->memory); free(chunk); }
RECURSIVE free_chunks(_, _, _)
free_chunks(h, cs, i) ==
    IF i > Len(cs) THEN h
    ELSE free_chunks(HeapFree(HeapFree(h, cs[i].memory), cs[i].rec), cs, i + 1)

\* vec_arena_destroy(arena->chunks, NULL) belongs to the fluent_libc vector,
\* which is not among the sources: whether it also releases the
\* vector_arena_t that arena_new obtained with malloc is left open.
vec_arena_destroy(h, v, releasesStruct) ==
    IF releasesStruct THEN HeapFree(h, v) ELSE h

destroy_heap(h, cs, o, releasesStruct) ==
    HeapFree(vec_arena_destroy(free_chunks(h, cs, 1), o.tracker, releasesStruct),
             o.allocator)

\* the reads, frees and vector call of destroy_arena in program order
Rd(id) == [ev |-> "read", id |-> id]
Fr(id) == [ev |-> "free", id |-> id]
Vd(id) == [ev |-> "vec_arena_destroy", id |-> id]

chunk_events_record_first(c, o) ==
    <<Rd(o.allocator), Rd(o.tracker), Fr(c.rec), Rd(c.rec), Fr(c.memory)>>

\* one iteration: i < arena->chunks->length, vec_arena_get, free(chunk->memory),
\* free(chunk)
chunk_events(c, o) ==
    <<Rd(o.allocator), Rd(o.tracker), Rd(c.rec), Fr(c.memory), Fr(c.rec)>>

RECURSIVE loop_events(_, _, _)
loop_events(cs, o, i) ==
    IF i > Len(cs) THEN <<Rd(o.allocator), Rd(o.tracker)>>
    ELSE chunk_events(cs[i], o) \o loop_events(cs, o, i + 1)

destroy_events(cs, o, releasesStruct) ==
    loop_events(cs, o, 1)
      \o <<Rd(o.allocator), Vd(o.tracker)>>
      \o (IF releasesStruct THEN <<Fr(o.tracker)>> ELSE <<>>)
      \o <<Fr(o.allocator)>>

destroy_arena(h, releasesStruct) ==
    /\ h = ARENA => phase = "live"
    /\ IF h = NULL
       THEN /\ op' = Call("destroy_arena", h, 0, 0, TRUE, TRUE, "void")
            /\ UNCHANGED <<phase, el_size, chunk_els, chunks, heap, obj, teardown, ptrs, resets>>
       ELSE /\ heap' = destroy_heap(heap, chunks, obj, releasesStruct)
            /\ teardown' = destroy_events(chunks, obj, releasesStruct)
            /\ phase' = "destroyed"
            /\ op' = Call("destroy_arena", h, 0, 0, TRUE, releasesStruct, "void")
            /\ UNCHANGED <<el_size, chunk_els, chunks, obj, ptrs, resets>>

Next ==
    \/ \E n \in SizeT, e \in SizeT, allocOk \in BOOLEAN, vecOk \in BOOLEAN :
          arena_new(n, e, allocOk, vecOk)
    \/ \E h \in Handles, bufOk \in BOOLEAN, recOk \in BOOLEAN :
          arena_malloc(h, bufOk, recOk)
    \/ \E h \in Handles : reset(h)
    \/ \E h \in Handles, releasesStruct \in BOOLEAN : destroy_arena(h, releasesStruct)

Spec == Init /\ [][Next]_vars

\* ---- properties --------------------------------------------------------
Abs(x) == IF x < 0 THEN -x ELSE x
ValidParams == el_size > 0 /\ chunk_els > 0
Created == phase # "unset"
\* the parameters with which no size_t computation of arena_malloc wraps
NoWrap == el_size * chunk_els + el_size < Modulus

\* C1: with both parameters > 0, any two pointers returned with no reset in
\* between lie in different chunks or, in the same chunk, at offsets at least
\* el_size apart.
C1_NoOverlap ==
    (Created /\ ValidParams) =>
        \A i, j \in 1 .. Len(ptrs) :
            (i < j /\ ptrs[i].epoch = ptrs[j].epoch) =>
                \/ ptrs[i].chunk # ptrs[j].chunk
                \/ Abs(ptrs[i].off - ptrs[j].off) >= el_size

\* C2: with both parameters > 0, up to chunk_els successful arena_malloc
\* calls on a fresh arena leave exactly one chunk, and the i-th call
\* (counted from 0) returns offset i * el_size of that chunk.
C2_FirstChunkOffsets ==
    (Created /\ ValidParams /\ resets = 0
       /\ Len(ptrs) >= 1 /\ Len(ptrs) <= chunk_els) =>
        /\ Len(chunks) = 1
        /\ \A i \in 1 .. Len(ptrs) :
              ptrs[i].chunk = 1 /\ ptrs[i].off = (i - 1) * el_size

\* C3: with both parameters > 0, the (chunk_els + 1)-th successful
\* arena_malloc on a fresh arena takes the chunk count from 1 to 2 and
\* returns offset 0 of the second chunk, whose used counter is then el_size.
C3_SecondChunk ==
    [][(ValidParams /\ resets = 0 /\ phase = "live"
          /\ Len(ptrs) = chunk_els /\ Len(ptrs') = chunk_els + 1) =>
            /\ Len(chunks) = 1
            /\ Len(chunks') = 2
            /\ ptrs'[Len(ptrs')].chunk = 2
            /\ ptrs'[Len(ptrs')].off = 0
            /\ chunks'[2].used = el_size]_vars

\* C4: in every state of a live arena, every chunk of the sequence
\* satisfies 0 <= used <= size.
C4_UsedWithinSize ==
    phase = "live" =>
    \A i \in 1 .. Len(chunks) : 0 <= chunks[i].used /\ chunks[i].used <= chunks[i].size

\* C5: with both parameters > 0, every returned pointer designates el_size
\* bytes inside the buffer of its chunk: off + el_size <= size.
C5_InsideBuffer ==
    (Created /\ ValidParams) =>
        \A i \in 1 .. Len(ptrs) :
            ptrs[i].off + el_size <= chunks[ptrs[i].chunk].size

\* C6: an arena_malloc that needs a new chunk and whose buffer or record
\* malloc fails returns NULL, leaves the chunk sequence, every used counter
\* and the arena's fields as they were, and leaves no host allocation of its
\* own outstanding.
C6_FailedGrowthUnwinds ==
    [][(op'.name = "arena_malloc" /\ op'.handle = ARENA /\ (~op'.ok1 \/ ~op'.ok2)) =>
            /\ op'.ret = NULL
            /\ chunks' = chunks
            /\ ptrs' = ptrs
            /\ LiveAllocs(heap') = LiveAllocs(heap)
            /\ UNCHANGED <<phase, el_size, chunk_els, obj>>]_vars

\* the record malloc failed after the buffer malloc succeeded, on an arena
\* that already had a chunk
C6_Witness ==
    /\ op.name = "arena_malloc" /\ op.handle = ARENA
    /\ op.ok1 /\ ~op.ok2
    /\ Len(chunks) >= 1
    /\ heap[Len(heap)].kind = "buffer" /\ ~heap[Len(heap)].live

\* C7: arena_new with chunk_els = 0 or el_size = 0 fails: it returns no
\* arena and leaves no host allocation outstanding.
C7_ZeroRejected ==
    (op.name = "arena_new" /\ (op.chunk_els = 0 \/ op.el_size = 0)) =>
        /\ op.ret = NULL
        /\ phase = "unset"
        /\ LiveAllocs(heap) = {}

\* C8: if either malloc of arena_new fails it returns NULL with no host
\* allocation outstanding; on success the arena has zero chunks and holds
\* el_size and chunk_els as given.
C8_CreateUnwinds ==
    op.name = "arena_new" =>
        /\ (~op.ok1 \/ ~op.ok2) => op.ret = NULL
        /\ op.ret = NULL => (phase = "unset" /\ LiveAllocs(heap) = {})
        /\ op.ret = ARENA =>
              /\ phase = "live"
              /\ chunks = <<>>
              /\ el_size = op.el_size
              /\ chunk_els = op.chunk_els
              /\ LiveAllocs(heap) = {obj.allocator, obj.tracker}

\* the vector malloc failed after the allocator malloc succeeded
C8_Witness ==
    /\ op.name = "arena_new" /\ op.ok1 /\ ~op.ok2
    /\ Len(heap) >= 1
    /\ heap[Len(heap)].kind = "allocator" /\ heap[Len(heap)].frees = 1

\* C10: with a NULL handle arena_malloc returns NULL, reset and
\* destroy_arena return at once; none of them changes the arena or the heap.
C10_NullHandle ==
    [][(op'.handle = NULL /\ op'.name \in {"arena_malloc", "reset", "destroy_arena"}) =>
            /\ op'.name = "arena_malloc" => op'.ret = NULL
            /\ UNCHANGED <<phase, el_size, chunk_els, chunks, heap, obj, teardown, ptrs, resets>>]_vars

\* arena_malloc(NULL) was called while a live arena holds a used chunk
C10_Witness ==
    /\ op.name = "arena_malloc" /\ op.handle = NULL
    /\ phase = "live"
    /\ Len(chunks) >= 1


\* C11: reset on a live arena keeps the chunk count, keeps every chunk's
\* buffer, record and size, makes no host allocation and no free, and sets
\* every used counter to 0.
C11_ResetFrame ==
    [][(op'.name = "reset" /\ op'.handle = ARENA) =>
            /\ Len(chunks') = Len(chunks)
            /\ \A i \in 1 .. Len(chunks) :
                  /\ chunks'[i].memory = chunks[i].memory
                  /\ chunks'[i].rec = chunks[i].rec
                  /\ chunks'[i].size = chunks[i].size
                  /\ chunks'[i].used = 0
            /\ heap' = heap
            /\ UNCHANGED <<phase, el_size, chunk_els, obj>>]_vars

\* reset was called on an arena that has grown to two chunks
C11_Witness ==
    /\ op.name = "reset" /\ op.handle = ARENA
    /\ Len(chunks) >= 2
    /\ \A i \in 1 .. Len(chunks) : chunks[i].used = 0


\* successful arena_malloc calls since the last reset (or since arena_new)
SinceReset(ps, r) == Cardinality({i \in 1 .. Len(ps) : ps[i].epoch = r})
MallocSucceeds == op'.name = "arena_malloc" /\ Len(ptrs') = Len(ptrs) + 1

\* C12: the first successful arena_malloc after a reset of an arena with at
\* least one chunk creates no chunk and returns the base of the first chunk,
\* the first pointer the arena ever returned.  Stated for parameters > 0
\* without wrap-around, where the arithmetic of C5 plays no part.
C12_ResetReusesFirst ==
    [][(NoWrap /\ ValidParams /\ MallocSucceeds /\ resets >= 1
          /\ SinceReset(ptrs, resets) = 0 /\ Len(chunks) >= 1) =>
            /\ Len(chunks') = Len(chunks)
            /\ ptrs'[Len(ptrs')].chunk = 1
            /\ ptrs'[Len(ptrs')].off = 0
            /\ ptrs'[Len(ptrs')].chunk = ptrs[1].chunk
            /\ ptrs'[Len(ptrs')].off = ptrs[1].off]_vars


\* the used counter the served chunk had before the call (0 for a new chunk)
UsedBefore == IF Len(chunks') > Len(chunks) THEN 0 ELSE LastChunk(chunks).used
LastChunkOnly ==
    /\ Len(chunks') \in {Len(chunks), Len(chunks) + 1}
    /\ Len(chunks') >= 1
    /\ ptrs'[Len(ptrs')].chunk = Len(chunks')
    /\ \A i \in 1 .. Len(chunks) :
          /\ chunks'[i].memory = chunks[i].memory
          /\ chunks'[i].size = chunks[i].size
          /\ i < Len(chunks') => chunks'[i].used = chunks[i].used
    /\ LastChunk(chunks').used = UsedBefore + el_size
UsedGrows ==
    \A i \in 1 .. Len(chunks) :
        i <= Len(chunks') /\ chunks'[i].used >= chunks[i].used

\* C13: a successful arena_malloc changes only the used counter of the chunk
\* that is last after the call, by exactly +el_size, and leaves every
\* earlier chunk as it was; apart from reset no step decreases a used counter.
C13_LastChunkBump ==
    [][/\ MallocSucceeds => LastChunkOnly
       /\ ~(op'.name = "reset" /\ op'.handle = ARENA) => UsedGrows]_vars


\* the chunks that existed at the last reset: those that served a pointer
\* before it (every chunk serves one in the call that creates it)
ChunksAtReset ==
    Cardinality({c \in 1 .. Len(chunks) :
                    \E i \in 1 .. Len(ptrs) : ptrs[i].chunk = c /\ ptrs[i].epoch < resets})

\* C14: after a reset of an arena with N chunks the next N * chunk_els
\* successful arena_malloc calls leave the chunk count at N.  Stated for
\* parameters > 0 without wrap-around, where the arithmetic of C5 plays no
\* part.
C14_ResetReusesAll ==
    [][(NoWrap /\ ValidParams /\ MallocSucceeds /\ resets >= 1
          /\ SinceReset(ptrs', resets) <= ChunksAtReset * chunk_els) =>
            Len(chunks') = ChunksAtReset]_vars


Count(e) == Cardinality({i \in 1 .. Len(teardown) : teardown[i] = e})
Pos(e) == CHOOSE i \in 1 .. Len(teardown) : teardown[i] = e
Releases == {i \in 1 .. Len(teardown) : teardown[i].ev # "read"}
Rank(i) ==
    CASE heap[teardown[i].id].kind = "buffer" -> 1
      [] heap[teardown[i].id].kind = "record" -> 2
      [] heap[teardown[i].id].kind = "tracker" -> 3
      [] OTHER -> 4
NoReadAfterFree ==
    \A i, j \in 1 .. Len(teardown) :
        (i < j /\ teardown[i].ev = "free") =>
            ~(teardown[j].ev # "free" /\ teardown[j].id = teardown[i].id)
AllReleased ==
    /\ \A c \in 1 .. Len(chunks) :
          Count(Fr(chunks[c].memory)) = 1 /\ Count(Fr(chunks[c].rec)) = 1
    /\ Count(Vd(obj.tracker)) = 1
    /\ Count(Fr(obj.allocator)) = 1

\* C16 as claimed: destroy_arena releases every chunk buffer, then every
\* chunk record, then the tracker, then the allocator structure, and reads
\* nothing it has freed.
C16_BuffersThenRecords ==
    phase = "destroyed" =>
        /\ AllReleased
        /\ \A i, j \in Releases : i < j => Rank(i) <= Rank(j)
        /\ NoReadAfterFree

\* C16 as amended: destroy_arena releases, chunk by chunk in sequence order,
\* the chunk's buffer and then its record, then hands the tracker to
\* vec_arena_destroy, then frees the allocator structure last, and reads
\* nothing it has freed.
C16_ChunkByChunk ==
    phase = "destroyed" =>
        /\ AllReleased
        /\ \A c \in 1 .. Len(chunks) :
              /\ Pos(Fr(chunks[c].memory)) < Pos(Fr(chunks[c].rec))
              /\ c < Len(chunks) =>
                    Pos(Fr(chunks[c].rec)) < Pos(Fr(chunks[c + 1].memory))
              /\ Pos(Fr(chunks[c].rec)) < Pos(Vd(obj.tracker))
        /\ Pos(Vd(obj.tracker)) < Pos(Fr(obj.allocator))
        /\ Pos(Fr(obj.allocator)) = Len(teardown)
        /\ Count(Fr(obj.tracker)) <= 1
        /\ Count(Fr(obj.tracker)) = 1 => Pos(Vd(obj.tracker)) < Pos(Fr(obj.tracker))
        /\ NoReadAfterFree
        /\ \A id \in {obj.allocator} \cup {chunks[c].memory : c \in 1 .. Len(chunks)}
                        \cup {chunks[c].rec : c \in 1 .. Len(chunks)} :
              heap[id].frees = Count(Fr(id)) /\ ~heap[id].live

\* an arena that had grown to two chunks has been destroyed
C16_Witness ==
    /\ phase = "destroyed"
    /\ Len(chunks) >= 2
    /\ Len(teardown) > 0


ZeroParams == el_size = 0 \/ chunk_els = 0

\* C17 as claimed: on an arena created with chunk_els = 0 or el_size = 0
\* every successful arena_malloc appends a new zero-capacity chunk.
C17_ZeroAlwaysGrows ==
    [][(phase = "live" /\ ZeroParams /\ MallocSucceeds) =>
            /\ Len(chunks') = Len(chunks) + 1
            /\ LastChunk(chunks').size = 0]_vars

\* C17 as amended: every chunk of such an arena has capacity 0; with
\* el_size = 0 only the first successful arena_malloc appends a chunk and
\* every call returns its base; with chunk_els = 0 and 2 * el_size not a
\* multiple of 2^w every successful call appends a chunk; with chunk_els = 0
\* and el_size = 2^(w-1) a call appends a chunk exactly when there is none or
\* the last one has used = 0.
C17_ZeroDegenerate ==
    [][(phase = "live" /\ ZeroParams /\ MallocSucceeds) =>
            /\ LastChunk(chunks').size = 0
            /\ el_size = 0 =>
                  /\ Len(chunks') = 1
                  /\ ptrs'[Len(ptrs')].chunk = 1 /\ ptrs'[Len(ptrs')].off = 0
            /\ (el_size # 0 /\ (2 * el_size) % Modulus # 0) =>
                  Len(chunks') = Len(chunks) + 1
            /\ (el_size # 0 /\ (2 * el_size) % Modulus = 0) =>
                  (Len(chunks') = Len(chunks) + 1
                      <=> (Len(chunks) = 0 \/ LastChunk(chunks).used = 0))]_vars

\* an arena with el_size = 0 has served three pointers from its only chunk
C17_Witness ==
    /\ phase = "live" /\ el_size = 0
    /\ Len(ptrs) >= 3
    /\ Len(chunks) = 1


\* after k successful calls: ceil(k / chunk_els) chunks, all but the last
\* full, the last holding the remaining elements
CeilDiv(k, n) == (k + n - 1) \div n
ChunkShape ==
    LET k == Len(ptrs)
        count == Len(chunks)
    IN  /\ count = CeilDiv(k, chunk_els)
        /\ \A i \in 1 .. count - 1 : chunks[i].used = chunks[i].size
        /\ count >= 1 =>
              LastChunk(chunks).used = (k - (count - 1) * chunk_els) * el_size

\* C18: on an arena with both parameters > 0 that was never reset, after k
\* successful arena_malloc calls the chunk count is ceil(k / chunk_els),
\* every chunk but the last is full and the last has used =
\* (k - (count - 1) * chunk_els) * el_size; the count never decreases and
\* grows by at most one per call.
C18_ChunkCount ==
    [][/\ (phase' = "live" /\ ValidParams' /\ resets' = 0) => ChunkShape'
       /\ phase = "live" => Len(chunks') \in {Len(chunks), Len(chunks) + 1}]_vars

\* ---- the regime without wrap-around ------------------------------------
\* For parameters with which no size_t computation of arena_malloc wraps,
\* the statements of C1, C2, C4 and C5 hold.
NoWrap_NoOverlap == NoWrap => C1_NoOverlap
NoWrap_FirstChunkOffsets == NoWrap => C2_FirstChunkOffsets
NoWrap_UsedWithinSize == (NoWrap /\ ValidParams) => C4_UsedWithinSize
NoWrap_InsideBuffer == NoWrap => C5_InsideBuffer

\* Without wrap-around the first arena_malloc after a reset creates no chunk
\* and returns the base of the last chunk of the sequence.
NoWrap_ResetReusesLast ==
    [][(NoWrap /\ ValidParams /\ MallocSucceeds /\ resets >= 1
          /\ SinceReset(ptrs, resets) = 0 /\ Len(chunks) >= 1) =>
            /\ Len(chunks') = Len(chunks)
            /\ ptrs'[Len(ptrs')].chunk = Len(chunks)
            /\ ptrs'[Len(ptrs')].off = 0]_vars
\* an arena without wrap-around was reset with two chunks and then served
ResetWithTwoChunks ==
    /\ NoWrap /\ ValidParams /\ resets >= 1 /\ Len(chunks) = 2
    /\ SinceReset(ptrs, resets) = 1
    /\ ptrs[Len(ptrs)].chunk = 2

\* With parameters > 0 and no wrap-around arena_malloc bumps the last chunk by exactly el_size
\* and no used counter decreases between resets.
NoWrap_LastChunkBump ==
    [][(NoWrap /\ ValidParams) =>
         /\ MallocSucceeds => LastChunkOnly
         /\ ~(op'.name = "reset" /\ op'.handle = ARENA) => UsedGrows]_vars

\* Without wrap-around the chunk count of a never-reset arena is
\* ceil(k / chunk_els) and all chunks but the last are full.
NoWrap_ChunkCount ==
    [][/\ (phase' = "live" /\ NoWrap' /\ ValidParams' /\ resets' = 0) => ChunkShape'
       /\ phase = "live" => Len(chunks') \in {Len(chunks), Len(chunks) + 1}]_vars
====
